---- MODULE Spec2Model ----
(***************************************************************************)
(* splunk-iot-processor/index.js: an AWS Lambda handler that forwards an   *)
(* AWS IoT event to a Splunk HTTP event collector through one shared       *)
(* splunk-logging Logger.                                                  *)
(*                                                                         *)
(* JavaScript runs each handler call and each I/O completion to the end    *)
(* before the next one starts, so an action is one such run: Handler is    *)
(* the synchronous body of exports.handler (console.log, configureLogger,  *)
(* logger.send, logger.flush up to the first HTTP POST), PostResponse is   *)
(* the completion of one HTTP POST inside the logger.                      *)
(*                                                                         *)
(* The Logger class lives in the splunk-logging package, which index.js    *)
(* requires and which is not among the repository's files.  send, flush    *)
(* and _sendEvents below model it as the transport that index.js and its   *)
(* documentation rely on.                                                  *)
(***************************************************************************)
EXTENDS Integers, Sequences, FiniteSets, TLC

VARIABLES
    logger,     \* the shared SplunkLogger: its two hooks and its send queue
    event,      \* event[i]: the event object of invocation i, as it is now
    input,      \* input[i]: the event as the runtime passed it in
    pc,         \* pc[i]: where invocation i is
    flights,    \* flights[i]: the flush that invocation i started
    hist,       \* hist[i]: what happened on behalf of invocation i, in order
    started     \* how many invocations the runtime has started

vars == <<logger, event, input, pc, flights, hist, started>>

\* --------------------------------------------------------------- bounds
MaxInvocations == 2

Invocations == 1..MaxInvocations

\* ------------------------------------------------------- JavaScript values
PropNames == {"awsRequestId", "temperature"}
Absent == "absent"
NoProps == [k \in PropNames |-> Absent]

\* A JavaScript value: its kind and, for an object or an array, its own
\* properties (Absent: no such own property).
JsValue(t, p) == [type |-> t, props |-> p]

Reading == JsValue("object", [NoProps EXCEPT !["temperature"] = "21"])
Tagged == JsValue("object", [NoProps EXCEPT !["temperature"] = "21",
                                            !["awsRequestId"] = "upstream"])
EmptyArray == JsValue("array", NoProps)

StructuredEvents == {Reading, Tagged, EmptyArray}
ScalarEvents == {JsValue(t, NoProps) :
                    t \in {"string", "number", "boolean", "null", "undefined"}}
Events == StructuredEvents \cup ScalarEvents

\* typeof v
typeof(v) == IF v.type \in {"object", "array", "null"} THEN "object" ELSE v.type

\* The outcome of evaluating an expression: a value, or a thrown exception.
Return(v) == [threw |-> FALSE, value |-> v]
Throw(v) == [threw |-> TRUE, value |-> v]

\* Object.prototype.hasOwnProperty.call(v, k): ToObject(v) throws a TypeError
\* for null and undefined; a boxed primitive has no such own property.
hasOwnPropertyCall(v, k) ==
    IF v.type \in {"null", "undefined"} THEN Throw("TypeError")
    ELSE Return(v.type \in {"object", "array"} /\ v.props[k] # Absent)

\* The invocation context the runtime passes to invocation i of the deployed
\* function: a request id of its own, and the function's name.
functionName == "iot-to-splunk"
awsRequestId(i) == "req-" \o ToString(i)
Context(i) == [awsRequestId |-> awsRequestId(i), functionName |-> functionName]

\* ------------------------------------------------------------ index.js
loggerConfigMut == [maxBatchCount |-> 0, maxRetries |-> 4]

loggerConfig == [maxBatchCount |-> 0, maxRetries |-> 3]

eventFormatterMutOverwrite(context, ev) ==
    IF typeof(ev) = "object"
    THEN LET has == hasOwnPropertyCall(ev, "awsRequestId") IN
         IF has.threw THEN Throw(has.value)
         ELSE Return([ev EXCEPT !.props["awsRequestId"] = context.awsRequestId])
    ELSE Return(ev)

\* logger.eventFormatter as configureLogger installs it for `context`.  The
\* event is changed in place, so the value returned is the event object.
eventFormatter(context, ev) ==
    IF typeof(ev) = "object"
    THEN LET has == hasOwnPropertyCall(ev, "awsRequestId") IN
         IF has.threw THEN Throw(has.value)
         ELSE IF ~has.value
              THEN Return([ev EXCEPT !.props["awsRequestId"] = context.awsRequestId])
              ELSE Return(ev)
    ELSE Return(ev)

\* ------------------------------------------------------ what is recorded
NoError == "null"

\* One entry of hist: a console.log line, a hook installation, a call of the
\* logger, or a call of a Lambda completion callback.
\*   eventFormatter, error: the invocations whose hooks are installed on the
\*       logger when the entry is made (0: the library's defaults);
\*   callback: the invocation whose completion callback is called;
\*   err, res: the arguments of that call (res: the invocation whose event
\*       object is passed, 0 for none);
\*   data: the records the entry is about.
Entry(kind) ==
    [kind |-> kind, eventFormatter |-> 0, error |-> 0, callback |-> 0,
     err |-> NoError, res |-> 0, data |-> <<>>]

\* The program state that the handler and the hooks read and write.
State == [logger |-> logger, event |-> event, pc |-> pc,
          flights |-> flights, hist |-> hist]

Record(s, i, e) == [s EXCEPT !.hist[i] = Append(@, e)]

\* callback(err, res) of invocation cb, called while invocation i's record is
\* being handled.  The runtime ends invocation cb on the first call.
callback(s, i, cb, err, res) ==
    LET s1 == Record(s, i, [Entry("callback") EXCEPT
                                !.callback = cb, !.err = err, !.res = res])
    IN [s1 EXCEPT !.pc[cb] = IF @ = "waiting" THEN "done" ELSE @]

\* ---------------------------------------------- index.js: configureLogger
configureLoggerMutOnce(s, i) ==
    LET s1 == IF s.logger.error = 0
              THEN [s EXCEPT !.logger.eventFormatter = i, !.logger.error = i]
              ELSE s
    IN Record(s1, i, [Entry("configure") EXCEPT
                         !.eventFormatter = s1.logger.eventFormatter,
                         !.error = s1.logger.error])

\* configureLogger(context, callback) of invocation i: both hooks of the
\* shared logger now close over invocation i's context and callback.
configureLogger(s, i) ==
    LET s1 == [s EXCEPT !.logger.eventFormatter = i, !.logger.error = i]
    IN Record(s1, i, [Entry("configure") EXCEPT
                         !.eventFormatter = s1.logger.eventFormatter,
                         !.error = s1.logger.error])

\* logger.error = (error, payload) => {...} as installed by invocation
\* `owner`, called for invocation i's record.
loggerError(s, i, owner, error, payload) ==
    LET s1 == Record(s, i, [Entry("log-error") EXCEPT
                               !.err = error, !.data = payload])
    IN callback(s1, i, owner, error, 0)

\* ------------------------------------------------ splunk-logging: Logger
\* SplunkLogger.prototype.error, the default hook: it only logs.
defaultError(s, i, error, payload) ==
    Record(s, i, [Entry("log-error") EXCEPT !.err = error, !.data = payload])

InitLogger == [eventFormatter |-> 0, error |-> 0, serializedContextQueue |-> <<>>]

\* logger.send({message, metadata}) in invocation i: the installed formatter
\* is applied to the message and the record is queued.  An exception of the
\* formatter leaves send, and the handler, with nothing queued.
send(s, i, message, metadata) ==
    LET owner == s.logger.eventFormatter
        r == IF owner = 0 THEN Return(message)
             ELSE eventFormatter(Context(owner), message)
    IN IF r.threw
       THEN [Record(s, i, [Entry("throw") EXCEPT !.err = r.value])
                EXCEPT !.pc[i] = "crashed"]
       ELSE LET body == [event |-> r.value, host |-> metadata.host,
                         source |-> metadata.source,
                         sourcetype |-> metadata.sourcetype]
                s1 == [s EXCEPT !.event[i] = r.value,
                                !.logger.serializedContextQueue = Append(@, body)]
            IN Record(s1, i, [Entry("send") EXCEPT
                                 !.eventFormatter = s1.logger.eventFormatter,
                                 !.error = s1.logger.error,
                                 !.data = <<body>>])

NoBody == [kind |-> "undefined", code |-> 0, text |-> ""]
\* flights[i]: the run of _sendEvents for invocation i's batch.  numRetries
\* is its counter while it runs; once it has finished, what it reported and
\* whether the counter had passed maxRetries are kept.
NoFlight == [status |-> "none", batch |-> <<>>, numRetries |-> 0,
             requestError |-> NoError, body |-> NoBody, exhausted |-> FALSE]

\* logger.flush(callback) in invocation i: the queue is emptied into one
\* batch and _sendEvents issues the first HTTP POST (numRetries++ <= maxRetries).
flush(s, i) ==
    LET batch == s.logger.serializedContextQueue
        s1 == [s EXCEPT !.logger.serializedContextQueue = <<>>,
                        !.flights[i] = [NoFlight EXCEPT !.status = "posting",
                                                        !.batch = batch,
                                                        !.numRetries = 1]]
        s2 == Record(s1, i, [Entry("flush") EXCEPT
                                 !.eventFormatter = s1.logger.eventFormatter,
                                 !.error = s1.logger.error,
                                 !.data = batch])
    IN s2

\* What one HTTP POST can come back with: a transport error (with or
\* without a body), or a body: none, the collector's {text, code}, or text
\* that is not the collector's JSON and so has no code field.
Success == [kind |-> "json", code |-> 0, text |-> "Success"]
Rejected == [kind |-> "json", code |-> 1, text |-> "Token disabled"]
HtmlPage == [kind |-> "text", code |-> 0, text |-> "<html>"]
TransportErrors == {"ECONNRESET", "ETIMEDOUT"}
Responses ==
    [err : {NoError}, body : {NoBody, Success, Rejected, HtmlPage}]
    \cup {[err |-> "ECONNRESET", body |-> NoBody],
          [err |-> "ECONNRESET", body |-> Rejected],
          [err |-> "ETIMEDOUT", body |-> Success],
          [err |-> "ETIMEDOUT", body |-> HtmlPage]}

\* JavaScript's truthiness of a response body, and body.code !== 0.
truthy(body) == body.kind # "undefined"
hasCode(body) == body.kind = "json"
codeIsNotZero(body) == IF hasCode(body) THEN body.code # 0 ELSE TRUE

\* ------------------------------------- index.js: the callback given to flush
flushCallbackMutErrOnly(s, i, err, body) ==
    IF err # NoError
    THEN s
    ELSE LET s1 == Record(s, i, [Entry("log-response") EXCEPT !.data = <<body>>])
         IN callback(s1, i, i, NoError, i)

flushCallbackMutBodyOnly(s, i, err, body) ==
    IF truthy(body) /\ codeIsNotZero(body)
    THEN s
    ELSE LET s1 == Record(s, i, [Entry("log-response") EXCEPT !.data = <<body>>])
         IN callback(s1, i, i, NoError, i)

flushCallbackMutEchoNothing(s, i, err, body) ==
    IF err # NoError \/ (truthy(body) /\ codeIsNotZero(body))
    THEN s
    ELSE LET s1 == Record(s, i, [Entry("log-response") EXCEPT !.data = <<body>>])
         IN callback(s1, i, i, NoError, 0)

\* (err, resp, body) => {...} of invocation i: on failure nothing is done
\* here; otherwise the response is logged and callback(null, event) called.
flushCallback(s, i, err, body) ==
    IF err # NoError \/ (truthy(body) /\ codeIsNotZero(body))
    THEN s
    ELSE LET s1 == Record(s, i, [Entry("log-response") EXCEPT !.data = <<body>>])
         IN callback(s1, i, i, NoError, i)

\* ------------------------------------------- splunk-logging: _sendEvents
\* body.code.toString() !== "0" for a response without a request error:
\* the error Splunk reported, none, or the TypeError of reading .toString
\* of a missing code.
splunkErrorOf(requestError, body) ==
    IF requestError = NoError /\ truthy(body)
    THEN IF ~hasCode(body) THEN Throw("TypeError")
         ELSE Return(IF body.code # 0 THEN body.text ELSE NoError)
    ELSE Return(NoError)

\* An exception nobody catches in an I/O callback ends the Node.js process:
\* every invocation still waiting ends without its callback, and the next
\* invocation runs in a new process with a new logger.
processExit(s, i) ==
    [s EXCEPT !.logger = InitLogger,
              !.pc = [j \in Invocations |->
                         IF s.pc[j] = "waiting" THEN "crashed" ELSE s.pc[j]],
              !.flights = [j \in Invocations |->
                              IF s.flights[j].status = "posting"
                              THEN [s.flights[j] EXCEPT
                                       !.status = IF j = i THEN "threw" ELSE "aborted",
                                       !.numRetries = 0]
                              ELSE s.flights[j]],
              !.hist[i] = Append(@, [Entry("throw") EXCEPT !.err = "TypeError"])]

\* The end of _sendEvents for invocation i's batch: the error hook that is
\* installed now is called on a request error or a Splunk error, and then
\* the callback that was given to flush.
finish(s, i, requestError, splunkError, body) ==
    LET f == s.flights[i]
        error == IF requestError # NoError THEN requestError ELSE splunkError
        owner == s.logger.error
        s1 == [s EXCEPT !.flights[i] =
                  [f EXCEPT !.status = "finished",
                            !.numRetries = 0,
                            !.requestError = requestError,
                            !.body = body,
                            !.exhausted = f.numRetries > loggerConfig.maxRetries]]
        s2 == IF error = NoError THEN s1
              ELSE IF owner = 0 THEN defaultError(s1, i, error, f.batch)
              ELSE loggerError(s1, i, owner, error, f.batch)
    IN flushCallback(s2, i, requestError, body)

\* The response to one HTTP POST of invocation i's batch.
postResponse(s, i, resp) ==
    LET f == s.flights[i]
        requestError == resp.err
        parsed == splunkErrorOf(requestError, resp.body)
    IN IF parsed.threw THEN processExit(s, i)
       ELSE IF /\ parsed.value = NoError
               /\ requestError # NoError
               /\ f.numRetries <= loggerConfig.maxRetries
            THEN \* utils.expBackoff, then whilst tests numRetries++ <= maxRetries
                 IF f.numRetries <= loggerConfig.maxRetries
                 THEN [s EXCEPT !.flights[i].numRetries = @ + 1]
                 ELSE finish(s, i, requestError, parsed.value, resp.body)
            ELSE finish(s, i, requestError, parsed.value, resp.body)

\* ----------------------------------------------- index.js: exports.handler
handlerMutSendFirst(s, i) ==
    LET metadata == [host |-> "serverless",
                     source |-> "lambda:" \o Context(i).functionName,
                     sourcetype |-> "httpevent"]
        s1 == Record(s, i, [Entry("log-received") EXCEPT !.data = <<s.event[i]>>])
        s2 == send(s1, i, s1.event[i], metadata)
        s3 == configureLogger(s2, i)
    IN IF s2.pc[i] = "crashed" THEN s2 ELSE flush(s3, i)

\* The synchronous body of handler(event, context, callback) of invocation i.
handler(s, i) ==
    LET metadata == [host |-> "serverless",
                     source |-> "lambda:" \o Context(i).functionName,
                     sourcetype |-> "httpevent"]
        s1 == Record(s, i, [Entry("log-received") EXCEPT !.data = <<s.event[i]>>])
        s2 == configureLogger(s1, i)
        s3 == send(s2, i, s2.event[i], metadata)
    IN IF s3.pc[i] = "crashed" THEN s3 ELSE flush(s3, i)

\* ------------------------------------------------------------- actions
NoEvent == JsValue("none", NoProps)

Init ==
    /\ logger = InitLogger
    /\ event = [i \in Invocations |-> NoEvent]
    /\ input = [i \in Invocations |-> NoEvent]
    /\ pc = [i \in Invocations |-> "idle"]
    /\ flights = [i \in Invocations |-> NoFlight]
    /\ hist = [i \in Invocations |-> <<>>]
    /\ started = 0

Apply(s) ==
    /\ logger' = s.logger
    /\ event' = s.event
    /\ pc' = s.pc
    /\ flights' = s.flights
    /\ hist' = s.hist

\* No invocation is waiting for its callback.
Quiet == \A j \in Invocations : pc[j] # "waiting"

\* The runtime calls handler(ev, context, callback) for the next invocation.
\* overlap: whether it may do so while an earlier invocation is waiting.
Invoke(ev, overlap) ==
    /\ started < MaxInvocations
    /\ overlap \/ Quiet
    /\ LET i == started + 1
           s == [State EXCEPT !.event[i] = ev, !.pc[i] = "waiting"]
       IN Apply(handler(s, i))
    /\ started' = started + 1
    /\ input' = [input EXCEPT ![started + 1] = ev]

Handler == \E ev \in Events : Invoke(ev, FALSE)

\* The events tried when invocations overlap: one of each way through send.
OverlapEvents == {Reading, Tagged, JsValue("string", NoProps),
                  JsValue("null", NoProps)}

HandlerOverlapping == \E ev \in OverlapEvents : Invoke(ev, TRUE)

\* One HTTP POST of invocation i's batch completes with response resp.
PostResponse ==
    \E i \in Invocations, resp \in Responses :
        /\ flights[i].status = "posting"
        /\ Apply(postResponse(State, i, resp))
        /\ UNCHANGED <<input, started>>

Next == Handler \/ PostResponse

\* Invocations one at a time, as the Lambda runtime runs them.
Spec == Init /\ [][Next]_vars

NextOverlapping == HandlerOverlapping \/ PostResponse

\* A host that starts an invocation while another is waiting for its flush.
SpecOverlapping == Init /\ [][NextOverlapping]_vars

\* ------------------------------------------------------------ properties
IsCallback(e) == e.kind = "callback"

\* The completion callbacks called on behalf of invocation i's record.
CallbackCalls(i) == SelectSeq(hist[i], IsCallback)

\* The (invocation, position) of every call of invocation cb's callback.
CallsTo(cb) ==
    UNION {{<<j, k>> : k \in {n \in 1..Len(hist[j]) :
                                 IsCallback(hist[j][n]) /\ hist[j][n].callback = cb}} :
           j \in Invocations}

Finished(i) == flights[i].status = "finished"

SucceededWith(i, body) ==
    Finished(i) /\ flights[i].requestError = NoError /\ flights[i].body = body

\* The input event with the request id added where the formatter's rule adds it.
Augmented(i) ==
    IF input[i].type \in {"object", "array"} /\ input[i].props["awsRequestId"] = Absent
    THEN [input[i] EXCEPT !.props["awsRequestId"] = awsRequestId(i)]
    ELSE input[i]

SuccessCall(i) == [Entry("callback") EXCEPT !.callback = i, !.res = i]
FailureCall(i, error) == [Entry("callback") EXCEPT !.callback = i, !.err = error]

\* C1, as stated: when the flush completes with no transport error and the body
\* {text: 'Success', code: 0}, the callback is called once as (null, event),
\* never with an error, and the event passed is the original input event.
C1_SuccessEchoesOriginalInput ==
    \A i \in Invocations :
        SucceededWith(i, Success) =>
            /\ CallbackCalls(i) = <<SuccessCall(i)>>
            /\ \A c \in CallsTo(i) : hist[c[1]][c[2]].err = NoError
            /\ event[i] = input[i]

\* C1, amended: in that case the callback is called once as (null, event) and
\* never with an error; the event passed is the input event object itself,
\* which by then carries the awsRequestId of the invocation's context if it
\* is an object or array that came without one, and is otherwise unchanged.
C1_SuccessEchoesEventObject ==
    \A i \in Invocations :
        SucceededWith(i, Success) =>
            /\ CallbackCalls(i) = <<SuccessCall(i)>>
            /\ \A c \in CallsTo(i) : hist[c[1]][c[2]].err = NoError
            /\ event[i] = Augmented(i)

C1_Witness ==
    \E i \in Invocations :
        /\ SucceededWith(i, Success)
        /\ input[i] = Reading
        /\ pc[i] = "done"

\* Position k of hist[i] is a log line of `error` with the failing payload.
IsErrorLog(i, k, error) ==
    /\ hist[i][k].kind = "log-error"
    /\ hist[i][k].err = error
    /\ hist[i][k].data = flights[i].batch
    /\ flights[i].batch # <<>>

\* Position k of hist[i] is a callback call with a log line of its error and
\* the failing payload before it.
LoggedBefore(i, k) ==
    \E l \in 1..(k - 1) : IsErrorLog(i, l, hist[i][k].err)

\* C2: when the flush reports a transport error, whatever the body, the
\* callback is called once, with that error and no result, never with a
\* success result, and the error and the failing payload are logged before.
C2_TransportErrorFails ==
    \A i \in Invocations :
        (Finished(i) /\ flights[i].requestError \in TransportErrors) =>
            /\ CallbackCalls(i) = <<FailureCall(i, flights[i].requestError)>>
            /\ \A k \in 1..Len(hist[i]) : IsCallback(hist[i][k]) => LoggedBefore(i, k)

C2_Witness ==
    \E i \in Invocations :
        /\ Finished(i)
        /\ flights[i].requestError = "ETIMEDOUT"
        /\ flights[i].body = Success
        /\ pc[i] = "done"

\* C3: when the flush reports no transport error and a body whose code is not
\* 0, the callback is called with an error and not with a success result.
C3_RejectionFails ==
    \A i \in Invocations :
        SucceededWith(i, Rejected) =>
            /\ CallbackCalls(i) # <<>>
            /\ \A k \in 1..Len(CallbackCalls(i)) :
                  /\ CallbackCalls(i)[k].callback = i
                  /\ CallbackCalls(i)[k].err # NoError
                  /\ CallbackCalls(i)[k].res = 0

C3_Witness ==
    \E i \in Invocations : SucceededWith(i, Rejected) /\ pc[i] = "done"

\* C4: whatever the transport reports for an invocation's record (success, a
\* transport error, a non-zero code, no body, a body without a numeric code),
\* the invocation's callback has then been called exactly once.
C4_CallbackExactlyOnce ==
    \A i \in Invocations :
        flights[i].status \in {"finished", "threw"} =>
            /\ Cardinality(CallsTo(i)) = 1
            /\ Len(CallbackCalls(i)) = 1

\* The record that send queued for invocation i, if it has queued one.
SendEntries(i) == SelectSeq(hist[i], LAMBDA e : e.kind = "send")
HasSent(i) == SendEntries(i) # <<>>
Payload(i) == SendEntries(i)[1].data[1].event

\* C5: for a structured input event the payload of the outbound record
\* carries awsRequestId: the context's when the event came without one, the
\* event's own, unchanged, when it came with one; nothing else is changed,
\* and applying the formatter again, for any context, does not change it.
C5_AugmentationIdempotent ==
    \A i \in Invocations :
        (HasSent(i) /\ input[i] \in StructuredEvents) =>
            /\ Payload(i).props["awsRequestId"] =
                  IF input[i].props["awsRequestId"] = Absent
                  THEN awsRequestId(i)
                  ELSE input[i].props["awsRequestId"]
            /\ Payload(i).type = input[i].type
            /\ \A k \in PropNames \ {"awsRequestId"} :
                  Payload(i).props[k] = input[i].props[k]
            /\ \A j \in Invocations :
                  eventFormatter(Context(j), Payload(i)) = Return(Payload(i))

C5_Witness ==
    /\ \E i \in Invocations : HasSent(i) /\ input[i] = Reading
    /\ \E i \in Invocations : HasSent(i) /\ input[i] = Tagged

\* C6: for a scalar input event (string, number, boolean, null, undefined)
\* the formatter raises no error and the record is queued with the payload
\* unchanged.
C6_ScalarForwardedAsIs ==
    \A i \in Invocations :
        (pc[i] # "idle" /\ input[i] \in ScalarEvents) =>
            /\ \A k \in 1..Len(hist[i]) : hist[i][k].kind # "throw"
            /\ HasSent(i)
            /\ Payload(i) = input[i]

\* C7: with invocations one at a time, every callback called for invocation
\* i's record is invocation i's, and its record was formatted by the
\* formatter of invocation i's context: no request id of another invocation.
C7_NoStaleCallbackOrId ==
    \A i \in Invocations :
        \A k \in 1..Len(hist[i]) :
            /\ IsCallback(hist[i][k]) => hist[i][k].callback = i
            /\ hist[i][k].kind = "send" =>
                  /\ hist[i][k].eventFormatter = i
                  /\ \A j \in Invocations \ {i} :
                        hist[i][k].data[1].event.props["awsRequestId"] # awsRequestId(j)

C7_Witness ==
    /\ started >= 2
    /\ pc[started] = "done"
    /\ input[started] = Reading
    /\ flights[started].requestError \in TransportErrors
    /\ flights[1].requestError \in TransportErrors

\* A callback call made for invocation i's record that is not invocation i's.
Misdelivered(i, k) == IsCallback(hist[i][k]) /\ hist[i][k].callback # i

\* C8: with overlapping invocations a failure can reach another invocation's
\* callback; when it does, it is the failure of an earlier invocation reaching
\* the callback of one started after it, and the earlier invocation's record
\* never leads to a call of its own callback.
C8_OverlapMisdelivers ==
    \A i \in Invocations :
        \A k \in 1..Len(hist[i]) :
            Misdelivered(i, k) =>
                /\ hist[i][k].callback > i
                /\ hist[i][k].err # NoError
                /\ hist[i][k].res = 0
                /\ CallbackCalls(i) = <<hist[i][k]>>

C8_Witness ==
    /\ Finished(1)
    /\ FailureCall(2, flights[1].requestError) \in {hist[1][k] : k \in 1..Len(hist[1])}
    /\ flights[1].requestError \in TransportErrors
    /\ CallsTo(1) = {}
    /\ pc[1] = "waiting"
    /\ pc[2] = "done"
    /\ flights[2].status = "posting"

\* The positions of hist[i] of the given kind with both hooks invocation i's.
OwnHooksAt(i, kind) ==
    {k \in 1..Len(hist[i]) :
        /\ hist[i][k].kind = kind
        /\ hist[i][k].eventFormatter = i
        /\ hist[i][k].error = i}

\* C9: in every invocation both hooks, bound to that invocation, are installed
\* before send, and send comes before flush; a record is sent and flushed
\* only under the hooks of its own invocation.
C9_HooksBeforeSendBeforeFlush ==
    \A i \in Invocations :
        \A k \in 1..Len(hist[i]) :
            /\ hist[i][k].kind = "send" =>
                  /\ k \in OwnHooksAt(i, "send")
                  /\ \E l \in OwnHooksAt(i, "configure") : l < k
            /\ hist[i][k].kind = "flush" =>
                  /\ k \in OwnHooksAt(i, "flush")
                  /\ \E l \in OwnHooksAt(i, "send") : l < k
                  /\ hist[i][k].data = hist[i][k - 1].data

C9_Witness ==
    /\ started >= 2
    /\ OwnHooksAt(started, "flush") # {}
    /\ OwnHooksAt(1, "flush") # {}

====
